---- MODULE Spec2Model ----
(***************************************************************************)
(* NekMonitor (src/NekMonitor.py): a Qt widget that polls ./logfile every  *)
(* poll_interval_ms, re-parses it with one regular expression, keeps six   *)
(* parallel lists, redraws five charts and flashes two indicators.         *)
(*                                                                         *)
(* Text is modelled as sequences of one-character strings.  A float is     *)
(* modelled by its decimal value <<m, e>> = m * 10^e with m carrying no    *)
(* trailing zero (binary rounding and overflow to inf are not modelled).   *)
(***************************************************************************)
EXTENDS Integers, Sequences, FiniteSets, TLC

(***************************************************************************)
(* Characters and character classes of the pattern (line 104).             *)
(***************************************************************************)
DigitChars == <<"0", "1", "2", "3", "4", "5", "6", "7", "8", "9">>

Digit == {DigitChars[i] : i \in 1..10}

Space == {" ", "\t", "\n", "\r"}

NumClass == Digit \cup {"E", "+", "-", "."}

DigitVal(c) == (CHOOSE i \in 1..10 : DigitChars[i] = c) - 1

\* Number of consecutive characters of class cls in s from position i on.
RECURSIVE Run(_, _, _)
Run(s, i, cls) ==
    IF i <= Len(s) /\ s[i] \in cls THEN 1 + Run(s, i + 1, cls) ELSE 0

(***************************************************************************)
(* The compiled pattern of parse_log, as a sequence of items: a character  *)
(* class, the least number of repetitions, whether the item is greedy      *)
(* unbounded (plus or star), and the capture group it fills (0: none).     *)
(***************************************************************************)
Lit(c) == [cls |-> {c}, min |-> 1, many |-> FALSE, grp |-> 0]

Ws0 == [cls |-> Space, min |-> 0, many |-> TRUE, grp |-> 0]

Ws1 == [cls |-> Space, min |-> 1, many |-> TRUE, grp |-> 0]

Grp(cls, g) == [cls |-> cls, min |-> 1, many |-> TRUE, grp |-> g]

pattern ==
    <<Lit("S"), Lit("t"), Lit("e"), Lit("p"), Ws1, Grp(Digit, 1), Lit(","),
      Ws0, Lit("t"), Lit("="), Ws0, Grp(NumClass, 2), Lit(","),
      Ws0, Lit("D"), Lit("T"), Lit("="), Ws0, Grp(NumClass, 3), Lit(","),
      Ws0, Lit("C"), Lit("="), Ws0, Grp(NumClass, 4),
      Ws0, Grp(NumClass, 5), Ws0, Grp(NumClass, 6)>>

NoMatch == <<>>

EmptyGroups == [g \in 1..6 |-> <<>>]

(***************************************************************************)
(* Matching items k.. of the pattern p at position pos.  The regex engine  *)
(* backtracks: a greedy item first takes the longest run and gives         *)
(* characters back one at a time until the rest of the pattern matches.    *)
(* So item k takes the greatest number of characters after which the rest  *)
(* can still match.  The result is the six captured groups, or NoMatch.    *)
(***************************************************************************)
\* The most characters item k of p can take at pos.
Longest(p, s, pos, k) ==
    IF p[k].many THEN Run(s, pos, p[k].cls)
    ELSE IF pos <= Len(s) /\ s[pos] \in p[k].cls THEN 1 ELSE 0

\* Whether items k.. of p match at pos.
RECURSIVE CanMatch(_, _, _, _)
CanMatch(p, s, pos, k) ==
    \/ k > Len(p)
    \/ \E n \in p[k].min..Longest(p, s, pos, k) : CanMatch(p, s, pos + n, k + 1)

\* The number of characters item k takes at pos, given CanMatch(p, s, pos, k).
Take(p, s, pos, k) ==
    CHOOSE n \in p[k].min..Longest(p, s, pos, k) :
        /\ CanMatch(p, s, pos + n, k + 1)
        /\ \A n2 \in (n + 1)..Longest(p, s, pos, k) :
              ~CanMatch(p, s, pos + n2, k + 1)

\* The groups once item k has taken n characters at pos.
Capture(p, s, pos, k, groups, n) ==
    IF p[k].grp = 0 THEN groups
    ELSE [groups EXCEPT ![p[k].grp] = SubSeq(s, pos, pos + n - 1)]

\* The groups of the match of items k.. at pos, given CanMatch(p, s, pos, k).
RECURSIVE MatchFrom(_, _, _, _, _)
MatchFrom(p, s, pos, k, groups) ==
    IF k > Len(p) THEN groups
    ELSE MatchFrom(p, s, pos + Take(p, s, pos, k), k + 1,
                   Capture(p, s, pos, k, groups, Take(p, s, pos, k)))

\* The match at the leftmost position that has one.
RECURSIVE SearchFrom(_, _, _)
SearchFrom(p, s, pos) ==
    IF pos > Len(s) THEN NoMatch
    ELSE IF CanMatch(p, s, pos, 1) THEN MatchFrom(p, s, pos, 1, EmptyGroups)
    ELSE SearchFrom(p, s, pos + 1)

\* pattern.search(line)
search(line) == SearchFrom(pattern, line, 1)

(***************************************************************************)
(* int() and float() on a captured group.                                  *)
(***************************************************************************)
RECURSIVE DigitsValue(_, _, _)
DigitsValue(s, i, n) ==
    IF n = 0 THEN 0
    ELSE DigitsValue(s, i, n - 1) * 10 + DigitVal(s[i + n - 1])

int(s) == DigitsValue(s, 1, Len(s))

\* The pieces float() reads off a group: an optional sign, integer digits,
\* an optional point and fraction digits, an optional E with an optional
\* sign and digits.
SignLen(s, i) == IF i <= Len(s) /\ s[i] \in {"+", "-"} THEN 1 ELSE 0

IsNeg(s, i) == i <= Len(s) /\ s[i] = "-"

IntStart(s) == 1 + SignLen(s, 1)

IntLen(s) == Run(s, IntStart(s), Digit)

DotAt(s) == IntStart(s) + IntLen(s)

HasDot(s) == DotAt(s) <= Len(s) /\ s[DotAt(s)] = "."

FracStart(s) == IF HasDot(s) THEN DotAt(s) + 1 ELSE DotAt(s)

FracLen(s) == IF HasDot(s) THEN Run(s, FracStart(s), Digit) ELSE 0

ExpAt(s) == FracStart(s) + FracLen(s)

HasExp(s) == ExpAt(s) <= Len(s) /\ s[ExpAt(s)] = "E"

ExpStart(s) == ExpAt(s) + 1 + SignLen(s, ExpAt(s) + 1)

ExpLen(s) == IF HasExp(s) THEN Run(s, ExpStart(s), Digit) ELSE 0

FloatEnd(s) == IF HasExp(s) THEN ExpStart(s) + ExpLen(s) ELSE ExpAt(s)

\* float(s) raises ValueError exactly when this is FALSE.
IsFloat(s) ==
    /\ IntLen(s) + FracLen(s) >= 1
    /\ HasExp(s) => ExpLen(s) >= 1
    /\ FloatEnd(s) = Len(s) + 1

Mantissa(s) ==
    DigitsValue(s, IntStart(s), IntLen(s)) * (10 ^ FracLen(s))
        + DigitsValue(s, FracStart(s), FracLen(s))

Exponent(s) ==
    (IF HasExp(s)
     THEN (IF IsNeg(s, ExpAt(s) + 1) THEN -1 ELSE 1)
              * DigitsValue(s, ExpStart(s), ExpLen(s))
     ELSE 0) - FracLen(s)

RECURSIVE Normalise(_, _)
Normalise(m, e) ==
    IF m = 0 THEN <<0, 0>>
    ELSE IF m % 10 = 0 THEN Normalise(m \div 10, e + 1)
    ELSE <<m, e>>

\* The value of float(s), for s with IsFloat(s).
SignedPair(neg, v) == IF neg THEN <<-v[1], v[2]>> ELSE v

float(s) == SignedPair(IsNeg(s, 1), Normalise(Mantissa(s), Exponent(s)))

(***************************************************************************)
(* Log lines the environment writes: two lines of the solver's step        *)
(* report, a line of other text, and a step report cut short by a write    *)
(* still in progress.                                                      *)
(***************************************************************************)
\* 'Step 1, t= 1.0E-1, DT= 5.0E-2, C= 0.50 2.5 1.5\n'
LineA ==
    <<"S", "t", "e", "p", " ", "1", ",", " ", "t", "=", " ", "1", ".",
      "0", "E", "-", "1", ",", " ", "D", "T", "=", " ", "5", ".", "0",
      "E", "-", "2", ",", " ", "C", "=", " ", "0", ".", "5", "0", " ",
      "2", ".", "5", " ", "1", ".", "5", "\n">>

\* ' Step  2, t=2.0E-1, DT=+1.0E-01, C= 0.25 125\n'
LineB ==
    <<" ", "S", "t", "e", "p", " ", " ", "2", ",", " ", "t", "=", "2",
      ".", "0", "E", "-", "1", ",", " ", "D", "T", "=", "+", "1", ".",
      "0", "E", "-", "0", "1", ",", " ", "C", "=", " ", "0", ".", "2",
      "5", " ", "1", "2", "5", "\n">>

\* 'Steps: 2 done\n'
LineText ==
    <<"S", "t", "e", "p", "s", ":", " ", "2", " ", "d", "o", "n", "e",
      "\n">>

\* 'Step 3, t= 3.0E-1, DT= 1.0E-1, C= 0.5 2.5 1.0E'
LineCut ==
    <<"S", "t", "e", "p", " ", "3", ",", " ", "t", "=", " ", "3", ".",
      "0", "E", "-", "1", ",", " ", "D", "T", "=", " ", "1", ".", "0",
      "E", "-", "1", ",", " ", "C", "=", " ", "0", ".", "5", " ", "2",
      ".", "5", " ", "1", ".", "0", "E">>

SampleLines == {LineA, LineB, LineText, LineCut}

(***************************************************************************)
(* Program constants.                                                      *)
(***************************************************************************)
poll_interval_ms == 1000

NumAxes == 5

Axes == 0..(NumAxes - 1)

ylabels ==
    [i \in Axes |->
        CASE i = 0 -> "Solution Time"
          [] i = 1 -> "DT"
          [] i = 2 -> "CFL"
          [] i = 3 -> "Total Wall Time"
          [] i = 4 -> "Step Wall Time"]

\* Delays between two ticks, in ms: the timer's interval, 1.1 times the
\* interval, and the first whole millisecond beyond that.
OnTime == poll_interval_ms

Threshold == (poll_interval_ms * 11) \div 10

Late == Threshold + 1

(***************************************************************************)
(* Bounds of the model.                                                    *)
(***************************************************************************)
\* Most lines the log file holds.
MaxLines == 2

\* Modification times are 1..MaxMtime; 0 is what an absent file reads as.
MaxMtime == 2

\* Most ticks in one run: polling stops once the clock (milliseconds since
\* construction) has passed MaxTicks late intervals.
MaxTicks == 3

\* Most clicks on x-axis labels in one run.
MaxClicks == 3

VARIABLES
    file,               \* the log file: [exists, lines, mtime]
    modified,           \* ghost: written, created or replaced since the last tick
    clock,              \* time.time(), in ms since construction
    last_file_mod,      \* self.last_file_mod
    last_update_time,   \* self.last_update_time, in ms since construction
    steps, times, dts, cfls, total_times, step_times,   \* the six data lists
    x_modes,            \* self.x_modes
    label_texts,        \* self.label_texts: the x-axis label artists
    plots,              \* what each chart shows: [x, y, xl, yl]
    update_led,         \* colour the last tick gave the Update indicator
    delay_led,          \* colour the last tick gave the Jam indicator
    status,             \* "ok", "raised" (last tick raised), "aborted"
    clicks,             \* ghost: number of clicks on each chart's label
    max_mod,            \* ghost: greatest modification time read so far
    late_ticks,         \* ghost: ticks that came more than 1100 ms late
    jam_flashes,        \* ghost: flashes of the Jam indicator
    polled              \* ghost: what the last tick found: [absent, before]

lists == <<steps, times, dts, cfls, total_times, step_times>>

vars == <<file, modified, clock, last_file_mod, last_update_time, steps, times, dts,
          cfls, total_times, step_times, x_modes, label_texts, plots,
          update_led, delay_led, status, clicks, max_mod, late_ticks,
          jam_flashes, polled>>

\* The six lists as the object holds them.
Current ==
    [steps |-> steps, times |-> times, dts |-> dts, cfls |-> cfls,
     total_times |-> total_times, step_times |-> step_times]

Range(f) == {f[i] : i \in DOMAIN f}

Max(a, b) == IF a >= b THEN a ELSE b

(***************************************************************************)
(* The file system.                                                        *)
(***************************************************************************)
Absent == [exists |-> FALSE, lines |-> <<>>, mtime |-> 0]

\* File contents of at most MaxLines lines drawn from the set ls.
Contents(ls) == UNION {[1..n -> ls] : n \in 0..MaxLines}

Files(ls, ms) ==
    {Absent} \cup {[exists |-> TRUE, lines |-> c, mtime |-> m] :
                      c \in Contents(ls), m \in ms}

\* The files a creation or replacement brings: empty or one line long (longer
\* files come from the writes that follow).
NewFiles(ls, ms) == {f \in Files(ls, ms) : f.exists /\ Len(f.lines) <= 1}

\* os.path.getmtime, with OSError read as 0.
getmtime(f) == IF f.exists THEN f.mtime ELSE 0

(***************************************************************************)
(* parse_log: one pass over the lines, appending to six local lists; a     *)
(* group float() rejects raises ValueError out of the loop.                *)
(***************************************************************************)
EmptyLists ==
    [steps |-> <<>>, times |-> <<>>, dts |-> <<>>, cfls |-> <<>>,
     total_times |-> <<>>, step_times |-> <<>>, raised |-> FALSE]

\* pattern.search, tabulated over the lines of the model.
Groups == [line \in SampleLines |-> search(line)]

\* What the loop body does with the groups m of one line: nothing when the
\* pattern did not match, else the six conversions, of which float() may
\* raise.
ConvertGroups(m) ==
    IF m = NoMatch THEN [match |-> FALSE, raised |-> FALSE]
    ELSE IF \E g \in 2..6 : ~IsFloat(m[g])
    THEN [match |-> TRUE, raised |-> TRUE, step |-> int(m[1])]
    ELSE [match |-> TRUE, raised |-> FALSE,
          step |-> int(m[1]), time |-> float(m[2]), dt |-> float(m[3]),
          cfl |-> float(m[4]), total_time |-> float(m[5]),
          step_time |-> float(m[6])]

Convert(line) == ConvertGroups(Groups[line])

\* Convert, tabulated over the lines of the model.
Converted == [line \in SampleLines |-> Convert(line)]

\* Mutant: the ValueError is swallowed after steps.append has run.
AppendRecordSwallowed(acc, r) ==
    IF r.raised
    THEN [acc EXCEPT !.steps = Append(@, r.step)]
    ELSE [steps |-> Append(acc.steps, r.step),
          times |-> Append(acc.times, r.time),
          dts |-> Append(acc.dts, r.dt),
          cfls |-> Append(acc.cfls, r.cfl),
          total_times |-> Append(acc.total_times, r.total_time),
          step_times |-> Append(acc.step_times, r.step_time),
          raised |-> FALSE]

AppendRecord(acc, r) ==
    IF r.raised
    THEN [acc EXCEPT !.raised = TRUE]
    ELSE [steps |-> Append(acc.steps, r.step),
          times |-> Append(acc.times, r.time),
          dts |-> Append(acc.dts, r.dt),
          cfls |-> Append(acc.cfls, r.cfl),
          total_times |-> Append(acc.total_times, r.total_time),
          step_times |-> Append(acc.step_times, r.step_time),
          raised |-> FALSE]

RECURSIVE ParseLines(_, _, _)
ParseLines(ls, i, acc) ==
    IF i > Len(ls) \/ acc.raised THEN acc
    ELSE LET r == Converted[ls[i]]
         IN  ParseLines(ls, i + 1, IF r.match THEN AppendRecord(acc, r) ELSE acc)

\* Mutant: a missing file leaves the data as they are.
parse_log_keeps(f) ==
    IF f.exists THEN ParseLines(f.lines, 1, EmptyLists)
    ELSE [steps |-> steps, times |-> times, dts |-> dts, cfls |-> cfls,
          total_times |-> total_times, step_times |-> step_times,
          raised |-> FALSE]

parse_log(f) ==
    IF f.exists THEN ParseLines(f.lines, 1, EmptyLists) ELSE EmptyLists

(***************************************************************************)
(* update_plots: the pair each chart plots and its axis labels.            *)
(***************************************************************************)
\* Mutant: charts 1-4 take the list before their own from data_sets.
ChartShifted(i, mode, d) ==
    IF i = 0
    THEN IF mode = "step"
         THEN [x |-> d.steps, y |-> d.times, xl |-> "Step", yl |-> "Solution Time"]
         ELSE [x |-> d.times, y |-> d.steps, xl |-> "Solution Time", yl |-> "Step"]
    ELSE LET data_sets == <<d.times, d.dts, d.cfls, d.total_times, d.step_times>>
             ydata == data_sets[i]
         IN  IF mode = "step"
             THEN [x |-> d.steps, y |-> ydata, xl |-> "Step", yl |-> ylabels[i]]
             ELSE [x |-> d.times, y |-> ydata, xl |-> "Solution Time",
                   yl |-> ylabels[i]]

Chart(i, mode, d) ==
    IF i = 0
    THEN IF mode = "step"
         THEN [x |-> d.steps, y |-> d.times, xl |-> "Step", yl |-> "Solution Time"]
         ELSE [x |-> d.times, y |-> d.steps, xl |-> "Solution Time", yl |-> "Step"]
    ELSE LET data_sets == <<d.times, d.dts, d.cfls, d.total_times, d.step_times>>
             ydata == data_sets[i + 1]
         IN  IF mode = "step"
             THEN [x |-> d.steps, y |-> ydata, xl |-> "Step", yl |-> ylabels[i]]
             ELSE [x |-> d.times, y |-> ydata, xl |-> "Solution Time",
                   yl |-> ylabels[i]]

update_plots(modes, d) == [i \in Axes |-> Chart(i, modes[i], d)]

\* The x-axis label artists update_plots leaves in label_texts, in axis order.
Labels == [k \in 1..NumAxes |-> k - 1]

Blank == [x |-> <<>>, y |-> <<>>, xl |-> "", yl |-> ""]

(***************************************************************************)
(* __init__                                                                *)
(***************************************************************************)
Init(ls, ms) ==
    /\ file \in Files(ls, ms)
    /\ modified = FALSE
    /\ clock = 0
    /\ last_file_mod = getmtime(file)
    /\ last_update_time = 0
    /\ steps = <<>> /\ times = <<>> /\ dts = <<>>
    /\ cfls = <<>> /\ total_times = <<>> /\ step_times = <<>>
    /\ x_modes = [i \in Axes |-> "step"]
    /\ label_texts = <<>>
    /\ plots = [i \in Axes |-> Blank]
    /\ update_led = "gray"
    /\ delay_led = "gray"
    /\ status = "ok"
    /\ clicks = [i \in Axes |-> 0]
    /\ max_mod = getmtime(file)
    /\ late_ticks = 0
    /\ jam_flashes = 0
    /\ polled = [absent |-> FALSE, before |-> 0]

(***************************************************************************)
(* update_data, the timer's slot, run `elapsed` ms after the previous run. *)
(* The 50 ms single shot of flash_led has turned both indicators gray      *)
(* again before the next timeout, so each indicator shows what this run    *)
(* did to it.                                                              *)
(***************************************************************************)
\* Mutant: any change of the modification time counts.
NewFileModDiffers(mod, last) == mod # last

\* mod > self.last_file_mod
NewFileMod(mod, last) == mod > last

\* Mutant: a tick exactly 1.1 intervals late flashes too.
JammedAtLeast(elapsed) == elapsed * 10 >= poll_interval_ms * 11

\* elapsed > (self.poll_interval_ms/1000.) * 1.1, elapsed in ms
Jammed(elapsed) == elapsed * 10 > poll_interval_ms * 11

\* Mutant: the parsed records are added to those already held.
Accumulated(old, new) ==
    [steps |-> old.steps \o new.steps, times |-> old.times \o new.times,
     dts |-> old.dts \o new.dts, cfls |-> old.cfls \o new.cfls,
     total_times |-> old.total_times \o new.total_times,
     step_times |-> old.step_times \o new.step_times,
     raised |-> new.raised]

\* The assignment of parse_log's result: the new lists replace the old.
Rebuilt(old, new) == new

\* Lines 134-135 with res the result of parse_log: a ValueError leaves the
\* lists and the charts as they were, and the slot's exception either ends
\* the process (PyQt5 from 5.5 on) or is printed and the loop goes on.
Assigned(res) ==
    IF res.raised
    THEN /\ status' \in {"raised", "aborted"}
         /\ UNCHANGED <<lists, label_texts, plots>>
    ELSE /\ status' = "ok"
         /\ steps' = res.steps /\ times' = res.times /\ dts' = res.dts
         /\ cfls' = res.cfls /\ total_times' = res.total_times
         /\ step_times' = res.step_times
         /\ plots' = update_plots(x_modes, res)
         /\ label_texts' = Labels

\* Lines 121-132 with mod the modification time read and now the clock.
Indicated(mod, now) ==
    /\ update_led' = IF NewFileMod(mod, last_file_mod) THEN "green" ELSE "gray"
    /\ last_file_mod' = IF NewFileMod(mod, last_file_mod) THEN mod
                        ELSE last_file_mod
    /\ delay_led' = IF Jammed(now - last_update_time) THEN "red" ELSE "gray"
    /\ last_update_time' = now
    /\ max_mod' = Max(max_mod, mod)

update_data(elapsed) ==
    /\ status # "aborted"
    /\ clock + elapsed <= MaxTicks * Late
    /\ clock' = clock + elapsed
    /\ Indicated(getmtime(file), clock')
    /\ Assigned(Rebuilt(Current, parse_log(file)))
    /\ modified' = FALSE
    /\ late_ticks' = late_ticks + (IF elapsed > 1100 THEN 1 ELSE 0)
    /\ jam_flashes' = jam_flashes + (IF delay_led' = "red" THEN 1 ELSE 0)
    /\ polled' = [absent |-> ~file.exists, before |-> Len(steps)]
    /\ UNCHANGED <<file, x_modes, clicks>>

(***************************************************************************)
(* on_label_click, the pick_event handler.  Only artists with a picker     *)
(* are picked: the x-axis labels, once update_plots has set them.          *)
(***************************************************************************)
\* Mutant: a click selects 'time' and never goes back.
ToggleOneWay(modes, idx) == [modes EXCEPT ![idx] = "time"]

Toggle(modes, idx) ==
    [modes EXCEPT ![idx] = IF modes[idx] = "step" THEN "time" ELSE "step"]

on_label_click(artist) ==
    /\ status # "aborted"
    /\ clicks[0] + clicks[1] + clicks[2] + clicks[3] + clicks[4] < MaxClicks
    /\ artist \in Range(label_texts)
    /\ LET idx == (CHOOSE k \in DOMAIN label_texts : label_texts[k] = artist) - 1
       IN  /\ x_modes' = Toggle(x_modes, idx)
           /\ plots' = update_plots(x_modes', Current)
           /\ label_texts' = Labels
    /\ clicks' = [clicks EXCEPT ![artist] = @ + 1]
    /\ UNCHANGED <<file, modified, clock, last_file_mod, last_update_time, lists,
                   update_led, delay_led, status, max_mod, late_ticks,
                   jam_flashes, polled>>

(***************************************************************************)
(* The environment: the solver and the user change the log file.           *)
(***************************************************************************)
program_vars ==
    <<clock, last_file_mod, last_update_time, lists, x_modes, label_texts, plots,
      update_led, delay_led, status, clicks, max_mod, late_ticks, jam_flashes,
      polled>>

\* A line is appended; the modification time moves to the file system's clock.
WriteLine(line, m) ==
    /\ file.exists
    /\ Len(file.lines) < MaxLines
    /\ m >= file.mtime
    /\ file' = [exists |-> TRUE, lines |-> Append(file.lines, line), mtime |-> m]
    /\ modified' = TRUE
    /\ UNCHANGED program_vars

\* The file is created, truncated or replaced by another file (mv, cp -p and
\* rsync keep the other file's modification time): f is the new file.
ReplaceFile(f) ==
    /\ f.exists
    /\ f # file
    /\ file' = f
    /\ modified' = TRUE
    /\ UNCHANGED program_vars

DeleteFile ==
    /\ file.exists
    /\ file' = Absent
    /\ UNCHANGED modified
    /\ UNCHANGED program_vars

(***************************************************************************)
(* Specifications.  Each fixes the delays between ticks, the charts whose  *)
(* label the user clicks, the lines the solver writes and the              *)
(* modification times the file takes.                                      *)
(***************************************************************************)
Poll(ds) == \E elapsed \in ds : update_data(elapsed)

Click(as) == \E artist \in as : on_label_click(artist)

FileSystem(ls, ms) ==
    \/ \E line \in ls, m \in ms : WriteLine(line, m)
    \/ \E f \in NewFiles(ls, ms) : ReplaceFile(f)
    \/ DeleteFile

Mtimes == 1..MaxMtime

\* A tick on time, one exactly 1.1 intervals after the last, one 1 ms later.
Delays == {OnTime, Threshold, Late}

\* Any log content, polled on time; the user clicks the first chart's label.
Spec ==
    /\ Init(SampleLines, {1})
    /\ [][Poll({OnTime}) \/ Click({0}) \/ FileSystem(SampleLines, {1})]_vars

\* The user clicks any label; the log holds one kind of line.
SpecModes ==
    /\ Init({LineA}, {1})
    /\ [][Poll({OnTime}) \/ Click(Axes) \/ FileSystem({LineA}, {1})]_vars

\* Any modification time and any delay; the log holds a step report or one
\* cut short; nobody clicks.
SpecClock ==
    /\ Init({LineA, LineCut}, Mtimes)
    /\ [][Poll(Delays) \/ FileSystem({LineA, LineCut}, Mtimes)]_vars

\* A run of update_data, whatever the delay.
Tick == \E elapsed \in Delays : update_data(elapsed)

(***************************************************************************)
(* C1                                                                      *)
(***************************************************************************)
\* C1: in every reachable state the six data lists have the same length.
C1_SameLength ==
    /\ Len(times) = Len(steps)
    /\ Len(dts) = Len(steps)
    /\ Len(cfls) = Len(steps)
    /\ Len(total_times) = Len(steps)
    /\ Len(step_times) = Len(steps)

\* Two records are held, a label has been clicked, and a tick that raised
\* on a cut line has left them in place.
C1_Witness ==
    /\ Len(steps) = 2
    /\ x_modes[0] = "time"
    /\ status = "raised"

(***************************************************************************)
(* C2                                                                      *)
(***************************************************************************)
\* C2: a tick that finds the log file absent completes without an error and
\* leaves the six lists empty, whatever they held before.
C2_AbsentGivesEmpty ==
    polled.absent =>
        /\ status = "ok"
        /\ \A k \in 1..6 : lists[k] = <<>>

\* The last tick found the file gone while the lists held records.
C2_Witness ==
    /\ polled.absent
    /\ polled.before > 0
    /\ steps = <<>>

(***************************************************************************)
(* C3                                                                      *)
(***************************************************************************)
\* The lines of f that match the pattern, in file order.
Matching(f) == SelectSeq(f.lines, LAMBDA line : Groups[line] # NoMatch)

\* C3: a tick that completes leaves in the six lists exactly one record per
\* pattern-matching line of the file's current content, in file order,
\* whatever the lists held before.
C3_RebuiltFromFile ==
    [][(Tick /\ status' = "ok") =>
         LET ms == Matching(file)
         IN  /\ steps' = [k \in 1..Len(ms) |-> int(Groups[ms[k]][1])]
             /\ times' = [k \in 1..Len(ms) |-> float(Groups[ms[k]][2])]
             /\ dts' = [k \in 1..Len(ms) |-> float(Groups[ms[k]][3])]
             /\ cfls' = [k \in 1..Len(ms) |-> float(Groups[ms[k]][4])]
             /\ total_times' = [k \in 1..Len(ms) |-> float(Groups[ms[k]][5])]
             /\ step_times' = [k \in 1..Len(ms) |-> float(Groups[ms[k]][6])]]_vars

\* The last tick completed over the file as it still is, which holds a line
\* of other text, and left fewer records than there were before it.
C3_Witness ==
    /\ status = "ok"
    /\ file.exists /\ ~modified /\ ~polled.absent
    /\ LineText \in Range(file.lines)
    /\ Len(steps) >= 1
    /\ polled.before > Len(steps)

(***************************************************************************)
(* C4                                                                      *)
(***************************************************************************)
\* C4: every chart's mode is 'step' or 'time', and it is 'time' exactly when
\* the chart's own x-axis label has been clicked an odd number of times.
C4_ModeIsClickParity ==
    \A i \in Axes :
        /\ x_modes[i] \in {"step", "time"}
        /\ (x_modes[i] = "time") <=> (clicks[i] % 2 = 1)

\* One chart clicked twice, another once, after a tick.
C4_Witness ==
    /\ clicks[3] = 2 /\ x_modes[3] = "step"
    /\ clicks[1] = 1 /\ x_modes[1] = "time"
    /\ clock > 0

(***************************************************************************)
(* C5                                                                      *)
(***************************************************************************)
\* C5: at every tick the Update indicator flashes green if and only if the
\* log file was written, created or replaced since the previous tick.
C5_FlashIffModified ==
    [][Tick => ((update_led' = "green") <=> modified)]_vars

(***************************************************************************)
(* C6                                                                      *)
(***************************************************************************)
\* C6: the Jam indicator flashes at a tick if and only if more than 1100 ms
\* have passed since the previous tick (since construction, for the first):
\* at every moment there have been as many flashes as late ticks.
C6_JamIffLate == jam_flashes = late_ticks

\* A late tick flashed the indicator and the on-time tick after it did not.
C6_Witness ==
    /\ late_ticks = 1
    /\ jam_flashes = 1
    /\ delay_led = "gray"

(***************************************************************************)
(* C7                                                                      *)
(***************************************************************************)
\* C7: whatever the file holds, update_data runs to completion without
\* raising.
C7_NeverRaises == status = "ok"

(***************************************************************************)
(* C8                                                                      *)
(***************************************************************************)
OwnList(i) ==
    CASE i = 1 -> dts
      [] i = 2 -> cfls
      [] i = 3 -> total_times
      [] i = 4 -> step_times

\* C8: once drawn, chart i plots the pair its mode selects: x is steps in
\* 'step' mode and times in 'time' mode, y the chart's own list, chart 0
\* plotting (steps, times) or the swapped pair; the x label reads 'Step' or
\* 'Solution Time' accordingly; x and y have the same length.
C8_PlotsFollowModes ==
    label_texts # <<>> =>
        \A i \in Axes :
            /\ plots[i].x = IF x_modes[i] = "step" THEN steps ELSE times
            /\ plots[i].y = IF i # 0 THEN OwnList(i)
                            ELSE IF x_modes[i] = "step" THEN times ELSE steps
            /\ plots[i].xl = IF x_modes[i] = "step" THEN "Step"
                             ELSE "Solution Time"
            /\ Len(plots[i].x) = Len(plots[i].y)

\* Charts 0 and 2 are drawn against Solution Time, chart 1 against Step,
\* with data on them.
C8_Witness ==
    /\ x_modes[0] = "time" /\ x_modes[2] = "time" /\ x_modes[1] = "step"
    /\ Len(steps) >= 1
    /\ plots[0].x = times /\ plots[0].y = steps
    /\ plots[2].x = times /\ plots[2].y = cfls

====
